---- MODULE Spec2Model ----
(***************************************************************************)
(* A model of examples/pytorch/language-modeling/utils/data_collator.py:   *)
(* the word-start test _is_start_piece_sp and the collator                 *)
(* AlbertDataCollatorForWholeWordMask (__call__, _whole_word_mask,         *)
(* mask_tokens).                                                           *)
(*                                                                         *)
(* Python values.  A str is the sequence of its Unicode code points, a     *)
(* bytes object the sequence of its byte values; the two are different     *)
(* kinds of value and never compare equal (Python 3).  A position of a     *)
(* token list is 0-based as in the code; the vector element of position p  *)
(* is element p + 1 of the TLA+ sequence.  None is the empty option <<>>,  *)
(* a present value x is <<x>>.                                             *)
(***************************************************************************)
EXTENDS Integers, Sequences, FiniteSets, TLC

VARIABLES
    pc,                 \* control location of the running operation
    tokenizer_ok,       \* isinstance(self.tokenizer, (Albert.., Camembert..))
    mlm_probability,    \* self.mlm_probability, a rational [num, den]
    warnings,           \* number of warnings.warn calls made so far
    piece,              \* argument of _is_start_piece_sp
    piece_result,       \* its return value, <<>> before the return
    input_tokens,       \* _whole_word_mask: argument input_tokens
    max_predictions,    \* _whole_word_mask: argument max_predictions
    cand_indexes,       \* _whole_word_mask: local cand_indexes
    num_to_predict,     \* _whole_word_mask: local num_to_predict
    wwm_out,            \* _whole_word_mask: returned mask_labels vector
    examples,           \* __call__: argument examples
    input_ids,          \* batch["input_ids"] / mask_tokens' inputs tensor
    special_tokens_mask,\* the special_tokens_mask argument of mask_tokens
    ex,                 \* __call__: number of rows of the for loop done
    mask_labels,        \* __call__: local list mask_labels
    word_groups,        \* observation: the set of groups built for each row
    batch_mask,         \* batch_mask / mask_tokens' mask_labels tensor
    labels,             \* labels tensor returned by mask_tokens
    stm_used,           \* observation: boolean special mask the last run used
    inputs_before,      \* observation: inputs at entry of the last run
    runs,               \* number of mask_tokens runs made
    outcome             \* "none", "returned" or the exception raised

vars == <<pc, tokenizer_ok, mlm_probability, warnings, piece, piece_result,
          input_tokens, max_predictions, cand_indexes, num_to_predict, wwm_out,
          examples, input_ids, special_tokens_mask, ex, mask_labels,
          word_groups, batch_mask, labels, stm_used, inputs_before, runs,
          outcome>>

pieceVars == <<piece, piece_result>>
wwmVars == <<input_tokens, max_predictions, cand_indexes, num_to_predict, wwm_out>>
callVars == <<examples, ex, mask_labels, word_groups>>
tensorVars == <<input_ids, special_tokens_mask, batch_mask, labels, stm_used,
                inputs_before, runs>>

-----------------------------------------------------------------------------
(* Bounds of the model.                                                    *)

MaxPieceLen == 2        \* longest piece given to _is_start_piece_sp
MaxTokens == 5          \* longest token list given to _whole_word_mask directly
MaxMaskLen == 2         \* longest row given to mask_tokens directly
MaxRuns == 2            \* most runs of mask_tokens on one tensor
MaxCells == 4           \* most positions of the padded batch of __call__

-----------------------------------------------------------------------------
(* Python values.                                                          *)

None == <<>>
Some(x) == <<x>>

Str(cps) == [kind |-> "str", v |-> cps]
Bytes(bs) == [kind |-> "bytes", v |-> bs]

Range(s) == {s[i] : i \in DOMAIN s}

\* all sequences over S of length lo..hi
SeqsOf(S, lo, hi) == UNION {[1..n -> S] : n \in lo..hi}

\* str.startswith(prefix)
startswith(s, prefix) ==
    /\ s.kind = prefix.kind
    /\ Len(s.v) >= Len(prefix.v)
    /\ SubSeq(s.v, 1, Len(prefix.v)) = prefix.v

\* Python 3 round() of the non-negative rational a / b: half to even
PyRound(a, b) ==
    LET q == a \div b
        r == a % b
    IN  IF 2 * r < b THEN q
        ELSE IF 2 * r > b THEN q + 1
        ELSE IF q % 2 = 0 THEN q ELSE q + 1

Min(a, b) == IF a <= b THEN a ELSE b
Max(a, b) == IF a >= b THEN a ELSE b

-----------------------------------------------------------------------------
(* _is_start_piece_sp                                                      *)

\* the characters of the literal '!"#$%&"()*+,-./:;?@[\\]^_`{|}~'
PunctLiteral ==
    <<33, 34, 35, 36, 37, 38, 34, 40, 41, 42, 43, 44, 45, 46, 47, 58, 59, 63,
      64, 91, 92, 93, 94, 95, 96, 123, 124, 125, 126>>

\* set(list(literal)), then .add(u"€".encode("utf-8")), .add(u"£".encode("utf-8"))
special_pieces ==
    {Str(<<PunctLiteral[i]>>) : i \in DOMAIN PunctLiteral}
        \cup {Bytes(<<226, 130, 172>>), Bytes(<<194, 163>>)}

_is_start_piece_sp(p) ==
    IF \/ startswith(p, Str(<<9601>>))      \* "▁"
       \/ startswith(p, Str(<<60>>))        \* "<"
       \/ p \in special_pieces
    THEN TRUE
    ELSE FALSE

\* code points the pieces given to _is_start_piece_sp are made of:
\* ▁ < ! ' = > [ a € £ and the first byte of "€".encode("utf-8")
PieceAlphabet == {9601, 60, 33, 39, 61, 62, 91, 97, 8364, 163, 226}

Pieces == {Str(s) : s \in SeqsOf(PieceAlphabet, 0, MaxPieceLen)}

-----------------------------------------------------------------------------
(* The tokenizer: a vocabulary table, id i is element i + 1.               *)

Vocab ==
    << Str(<<60, 112, 97, 100, 62>>),           \* 0 "<pad>"
       Str(<<60, 117, 110, 107, 62>>),          \* 1 "<unk>"
       Str(<<91, 67, 76, 83, 93>>),             \* 2 "[CLS]"
       Str(<<91, 83, 69, 80, 93>>),             \* 3 "[SEP]"
       Str(<<91, 77, 65, 83, 75, 93>>),         \* 4 "[MASK]"
       Str(<<9601, 116, 104, 101>>),            \* 5 "▁the"
       Str(<<9601, 113, 117, 105, 99, 107>>),   \* 6 "▁quick"
       Str(<<102, 111, 120>>) >>                \* 7 "fox"

convert_ids_to_tokens(ids) == [i \in DOMAIN ids |-> Vocab[ids[i] + 1]]
token_id(tok) == (CHOOSE i \in DOMAIN Vocab : Vocab[i] = tok) - 1

pad_token == Vocab[1]
unk_token == Vocab[2]
cls_token == Vocab[3]
sep_token == Vocab[4]
mask_token == Vocab[5]
TheTok == Vocab[6]
QuickTok == Vocab[7]
FoxTok == Vocab[8]

\* len(self.tokenizer)
TokenizerLen == Len(Vocab)

\* tokenizer.all_special_ids
all_special_ids ==
    {token_id(t) : t \in {pad_token, unk_token, cls_token, sep_token, mask_token}}

\* tokenizer.get_special_tokens_mask(val, already_has_special_tokens=True)
get_special_tokens_mask(val) == [i \in DOMAIN val |-> val[i] \in all_special_ids]

\* self.mlm_probability as a rational: the default 0.15, and 0.5 and 1.0
MlmProbabilities ==
    {[num |-> 3, den |-> 20], [num |-> 1, den |-> 2], [num |-> 1, den |-> 1]}

\* the default value of the parameter max_predictions
DefaultMaxPredictions == 512

-----------------------------------------------------------------------------
(* _whole_word_mask                                                        *)

\* WarnIfUnsuitable warning on the first call only
WarnOnce(n) == IF ~tokenizer_ok /\ n = 0 THEN 1 ELSE n

\* lines 75-76: one warnings.warn call when the tokenizer is of no known kind
WarnIfUnsuitable(n) == IF ~tokenizer_ok THEN n + 1 ELSE n

\* GroupScan skipping the classifier token only
RECURSIVE GroupScanKeepsSep(_, _, _)
GroupScanKeepsSep(tokens, i, cand) ==
    IF i > Len(tokens) THEN cand
    ELSE IF tokens[i] = cls_token
         THEN GroupScanKeepsSep(tokens, i + 1, cand)
         ELSE IF Len(cand) >= 1 /\ ~_is_start_piece_sp(tokens[i])
              THEN GroupScanKeepsSep(tokens, i + 1,
                                     [cand EXCEPT ![Len(cand)] = Append(@, i - 1)])
              ELSE GroupScanKeepsSep(tokens, i + 1, Append(cand, <<i - 1>>))

\* GroupScan with the word-start test of line 83 inverted
RECURSIVE GroupScanInverted(_, _, _)
GroupScanInverted(tokens, i, cand) ==
    IF i > Len(tokens) THEN cand
    ELSE IF tokens[i] \in {cls_token, sep_token}
         THEN GroupScanInverted(tokens, i + 1, cand)
         ELSE IF Len(cand) >= 1 /\ _is_start_piece_sp(tokens[i])
              THEN GroupScanInverted(tokens, i + 1,
                                     [cand EXCEPT ![Len(cand)] = Append(@, i - 1)])
              ELSE GroupScanInverted(tokens, i + 1, Append(cand, <<i - 1>>))

\* lines 78-86: the scan that builds cand_indexes; i is the 1-based index of
\* the token looked at, cand the list built so far
RECURSIVE GroupScan(_, _, _)
GroupScan(tokens, i, cand) ==
    IF i > Len(tokens) THEN cand
    ELSE IF tokens[i] \in {cls_token, sep_token}
         THEN GroupScan(tokens, i + 1, cand)
         ELSE IF Len(cand) >= 1 /\ ~_is_start_piece_sp(tokens[i])
              THEN GroupScan(tokens, i + 1,
                             [cand EXCEPT ![Len(cand)] = Append(@, i - 1)])
              ELSE GroupScan(tokens, i + 1, Append(cand, <<i - 1>>))

\* line 89
NumToPredict(tokens, maxp, prob) ==
    Min(maxp, Max(1, PyRound(Len(tokens) * prob.num, prob.den)))

\* SelectWalk without the test of line 100: a group that does not fit is taken
RECURSIVE SelectWalkNoFitTest(_, _, _, _)
SelectWalkNoFitTest(cands, k, covered, num) ==
    IF k > Len(cands) THEN covered
    ELSE IF Cardinality(covered) >= num THEN covered
    ELSE IF \E j \in DOMAIN cands[k] : cands[k][j] \in covered
         THEN SelectWalkNoFitTest(cands, k + 1, covered, num)
    ELSE SelectWalkNoFitTest(cands, k + 1, covered \cup Range(cands[k]), num)

\* SelectWalk with break in place of the continue of line 101
RECURSIVE SelectWalkBreaks(_, _, _, _)
SelectWalkBreaks(cands, k, covered, num) ==
    IF k > Len(cands) THEN covered
    ELSE IF Cardinality(covered) >= num THEN covered
    ELSE IF Cardinality(covered) + Len(cands[k]) > num THEN covered
    ELSE IF \E j \in DOMAIN cands[k] : cands[k][j] \in covered
         THEN SelectWalkBreaks(cands, k + 1, covered, num)
    ELSE SelectWalkBreaks(cands, k + 1, covered \cup Range(cands[k]), num)

\* lines 92-109: the walk over the shuffled groups from group k on; the value
\* is covered_indexes at the end of the loop
RECURSIVE SelectWalk(_, _, _, _)
SelectWalk(cands, k, covered, num) ==
    IF k > Len(cands) THEN covered
    ELSE IF Cardinality(covered) >= num THEN covered
    ELSE IF Cardinality(covered) + Len(cands[k]) > num
         THEN SelectWalk(cands, k + 1, covered, num)
    ELSE IF \E j \in DOMAIN cands[k] : cands[k][j] \in covered
         THEN SelectWalk(cands, k + 1, covered, num)
    ELSE SelectWalk(cands, k + 1, covered \cup Range(cands[k]), num)

\* lines 91, 109: the 0/1 vector with 1 at the covered positions
MaskVector(n, covered) == [p \in 1..n |-> IF (p - 1) \in covered THEN 1 ELSE 0]

\* lines 75-86
WwmGroup ==
    /\ pc = "wwm_call"
    /\ warnings' = WarnIfUnsuitable(warnings)
    /\ cand_indexes' = GroupScan(input_tokens, 1, <<>>)
    /\ pc' = "wwm_grouped"
    /\ UNCHANGED <<tokenizer_ok, mlm_probability, pieceVars, input_tokens,
                   max_predictions, num_to_predict, wwm_out, callVars,
                   tensorVars, outcome>>

\* lines 88-89: random.shuffle picks any order of the groups
WwmShuffle ==
    /\ pc = "wwm_grouped"
    /\ \E f \in Permutations(DOMAIN cand_indexes) :
          cand_indexes' = [i \in DOMAIN cand_indexes |-> cand_indexes[f[i]]]
    /\ num_to_predict' = NumToPredict(input_tokens, max_predictions, mlm_probability)
    /\ pc' = "wwm_shuffled"
    /\ UNCHANGED <<tokenizer_ok, mlm_probability, warnings, pieceVars,
                   input_tokens, max_predictions, wwm_out, callVars,
                   tensorVars, outcome>>

\* lines 91-111
WwmSelect ==
    /\ pc = "wwm_shuffled"
    /\ wwm_out' = Some(MaskVector(Len(input_tokens),
                                  SelectWalk(cand_indexes, 1, {}, num_to_predict)))
    /\ pc' = "wwm_returned"
    /\ UNCHANGED <<tokenizer_ok, mlm_probability, warnings, pieceVars,
                   input_tokens, max_predictions, cand_indexes, num_to_predict,
                   callVars, tensorVars, outcome>>

-----------------------------------------------------------------------------
(* mask_tokens.  A tensor is a sequence of rows of equal length.           *)

IgnoreIndex == -100

\* lines 126-132: the boolean special-token mask, derived from the ids when
\* the argument is None
SpecialMaskOf(ids, stm_arg) ==
    IF stm_arg = None
    THEN [r \in DOMAIN ids |-> get_special_tokens_mask(ids[r])]
    ELSE stm_arg[1]

\* ZeroSpecial without the masked_fill_ of line 134
ZeroSpecialSkipped(mask, stm) == mask

\* line 134: probability_matrix.masked_fill_(special_tokens_mask, value=0.0)
ZeroSpecial(mask, stm) ==
    [r \in DOMAIN mask |->
        [p \in DOMAIN mask[r] |-> IF stm[r][p] THEN 0 ELSE mask[r][p]]]

\* line 136: probability_matrix.bool()
BoolOf(mask) == [r \in DOMAIN mask |-> [p \in DOMAIN mask[r] |-> mask[r][p] # 0]]

\* LabelsOf with the complement of line 137 dropped: labels[masked_indices] = -100
LabelsOfInverted(ids, masked) ==
    [r \in DOMAIN ids |->
        [p \in DOMAIN ids[r] |-> IF masked[r][p] THEN IgnoreIndex ELSE ids[r][p]]]

\* lines 121, 137: labels = inputs.clone(); labels[~masked_indices] = -100
LabelsOf(ids, masked) ==
    [r \in DOMAIN ids |->
        [p \in DOMAIN ids[r] |-> IF masked[r][p] THEN ids[r][p] ELSE IgnoreIndex]]

\* Corrupt without "& masked_indices" in lines 140 and 144
CorruptEverywhere(ids, masked, draw) ==
    [r \in DOMAIN ids |->
        [p \in DOMAIN ids[r] |->
            IF draw[r][p].b8 THEN token_id(mask_token)
            ELSE IF draw[r][p].b5 THEN draw[r][p].rw
            ELSE ids[r][p]]]

\* lines 140-146: draw[r][p] holds the two Bernoulli draws (b8 with
\* probability 0.8, b5 with probability 0.5) and the random word rw of the
\* position
Corrupt(ids, masked, draw) ==
    [r \in DOMAIN ids |->
        [p \in DOMAIN ids[r] |->
            LET indices_replaced == draw[r][p].b8 /\ masked[r][p]
                indices_random == draw[r][p].b5 /\ masked[r][p] /\ ~indices_replaced
            IN  IF indices_random THEN draw[r][p].rw
                ELSE IF indices_replaced THEN token_id(mask_token)
                ELSE ids[r][p]]]

\* the values of torch.randint(len(self.tokenizer), ...) at one position, all
\* in 0..len(self.tokenizer) - 1: a special id and an ordinary one
RandomWords == {w \in 0..(TokenizerLen - 1) : w \in {token_id(pad_token), token_id(FoxTok)}}

\* the draws of one position; rw is left 0 where b5 is false, as lines
\* 144-146 read random_words under indices_random only
DrawChoices ==
    {d \in [b8 : BOOLEAN, b5 : BOOLEAN, rw : RandomWords \cup {0}] :
        IF d.b5 THEN d.rw \in RandomWords ELSE d.rw = 0}

\* the draw tensors of one run: one draw out of choices at every position
DrawTensors(ids, choices) ==
    {draw \in [DOMAIN ids -> UNION {[DOMAIN ids[r] -> choices] : r \in DOMAIN ids}] :
        \A r \in DOMAIN ids : DOMAIN draw[r] = DOMAIN ids[r]}

\* lines 113-149: one run of mask_tokens(input_ids, mask, special_tokens_mask)
MaskTokensStep(mask, choices) ==
    LET stm == SpecialMaskOf(input_ids, special_tokens_mask)
        probability_matrix == ZeroSpecial(mask, stm)
        masked_indices == BoolOf(probability_matrix)
    IN  /\ \E draw \in DrawTensors(input_ids, choices) :
              input_ids' = Corrupt(input_ids, masked_indices, draw)
        /\ labels' = LabelsOf(input_ids, masked_indices)
        /\ batch_mask' = probability_matrix
        /\ stm_used' = stm
        /\ inputs_before' = input_ids
        /\ runs' = runs + 1

\* a direct call of mask_tokens, the first or one on the results of the last
MaskTokens ==
    /\ pc = "mask_call"
    /\ runs < MaxRuns
    /\ MaskTokensStep(batch_mask, DrawChoices)
    /\ UNCHANGED <<pc, tokenizer_ok, mlm_probability, warnings, pieceVars,
                   wwmVars, callVars, special_tokens_mask, outcome>>

-----------------------------------------------------------------------------
(* __call__.  An example is [input_ids, special_tokens_mask]: a dict that  *)
(* holds a special_tokens_mask, or (mask None) a plain list of ids.        *)

MaxOf(S) == IF S = {} THEN 0 ELSE CHOOSE m \in S : \A x \in S : x <= m

\* a row padded on the right with fill up to length n
PadRight(row, n, fill) == [p \in 1..n |-> IF p <= Len(row) THEN row[p] ELSE fill]

\* _torch_collate_batch with pad_to_multiple_of None: the rows padded with
\* the pad token id to the length of the longest
TorchCollateBatch(rows) ==
    LET n == MaxOf({Len(rows[r]) : r \in DOMAIN rows})
    IN  [r \in DOMAIN rows |-> PadRight(rows[r], n, token_id(pad_token))]

\* tokenizer.pad: input_ids padded with the pad token id, special_tokens_mask
\* padded with 1
TokenizerPad(exs) ==
    LET n == MaxOf({Len(exs[r].input_ids) : r \in DOMAIN exs})
    IN  [input_ids |->
            [r \in DOMAIN exs |-> PadRight(exs[r].input_ids, n, token_id(pad_token))],
         special_tokens_mask |->
            [r \in DOMAIN exs |-> PadRight(exs[r].special_tokens_mask[1], n, TRUE)]]

\* CallCollate that builds an empty batch from no examples
CallCollateNoRaise ==
    /\ pc = "call"
    /\ IF examples = <<>>
       THEN input_ids' = <<>> /\ special_tokens_mask' = None
       ELSE IF examples[1].special_tokens_mask # None
            THEN /\ input_ids' = TokenizerPad(examples).input_ids
                 /\ special_tokens_mask' = Some(TokenizerPad(examples).special_tokens_mask)
            ELSE /\ input_ids' =
                        TorchCollateBatch([r \in DOMAIN examples |-> examples[r].input_ids])
                 /\ special_tokens_mask' = None
    /\ pc' = "loop"
    /\ UNCHANGED <<tokenizer_ok, mlm_probability, warnings, pieceVars, wwmVars,
                   callVars, batch_mask, labels, stm_used, inputs_before, runs,
                   outcome>>

\* lines 52-60: examples[0] raises IndexError on an empty list; otherwise the
\* batch is padded and its special_tokens_mask popped
CallCollate ==
    /\ pc = "call"
    /\ IF examples = <<>>
       THEN /\ pc' = "raised"
            /\ outcome' = "IndexError"
            /\ UNCHANGED <<input_ids, special_tokens_mask>>
       ELSE /\ IF examples[1].special_tokens_mask # None
               THEN /\ input_ids' = TokenizerPad(examples).input_ids
                    /\ special_tokens_mask' =
                          Some(TokenizerPad(examples).special_tokens_mask)
               ELSE /\ input_ids' =
                          TorchCollateBatch(
                              [r \in DOMAIN examples |-> examples[r].input_ids])
                    /\ special_tokens_mask' = None
            /\ pc' = "loop"
            /\ UNCHANGED outcome
    /\ UNCHANGED <<tokenizer_ok, mlm_probability, warnings, pieceVars, wwmVars,
                   callVars, batch_mask, labels, stm_used, inputs_before, runs>>

\* lines 61-63: the next row is converted to tokens and given to
\* _whole_word_mask, max_predictions at its default
CallLoopEnter ==
    /\ pc = "loop"
    /\ ex < Len(input_ids)
    /\ input_tokens' = convert_ids_to_tokens(input_ids[ex + 1])
    /\ max_predictions' = DefaultMaxPredictions
    /\ cand_indexes' = <<>>
    /\ num_to_predict' = 0
    /\ wwm_out' = None
    /\ pc' = "wwm_call"
    /\ UNCHANGED <<tokenizer_ok, mlm_probability, warnings, pieceVars, callVars,
                   tensorVars, outcome>>

\* line 63: mask_labels.append(...); the frame of _whole_word_mask is gone
CallLoopAppend ==
    /\ pc = "wwm_returned"
    /\ mask_labels' = Append(mask_labels, wwm_out[1])
    /\ word_groups' = Append(word_groups, Range(cand_indexes))
    /\ ex' = ex + 1
    /\ input_tokens' = <<>>
    /\ cand_indexes' = <<>>
    /\ num_to_predict' = 0
    /\ wwm_out' = None
    /\ pc' = "loop"
    /\ UNCHANGED <<tokenizer_ok, mlm_probability, warnings, pieceVars,
                   max_predictions, examples, tensorVars, outcome>>

\* the draws of one position taken in __call__: replace by [MASK], or keep
CallDrawChoices == {d \in DrawChoices : ~d.b5}

\* lines 64-69
CallMaskTokens ==
    /\ pc = "loop"
    /\ ex = Len(input_ids)
    /\ MaskTokensStep(TorchCollateBatch(mask_labels), CallDrawChoices)
    /\ pc' = "done"
    /\ outcome' = "returned"
    /\ UNCHANGED <<tokenizer_ok, mlm_probability, warnings, pieceVars, wwmVars,
                   callVars, special_tokens_mask>>

-----------------------------------------------------------------------------
(* Values of the variables an operation does not use.                      *)

PieceIdle == piece = Str(<<>>) /\ piece_result = None
WwmIdle ==
    /\ input_tokens = <<>>
    /\ max_predictions = DefaultMaxPredictions
    /\ cand_indexes = <<>>
    /\ num_to_predict = 0
    /\ wwm_out = None
CallIdle == examples = <<>> /\ ex = 0 /\ mask_labels = <<>> /\ word_groups = <<>>
TensorIdle ==
    /\ input_ids = <<>>
    /\ special_tokens_mask = None
    /\ batch_mask = <<>>
    /\ labels = <<>>
    /\ stm_used = <<>>
    /\ inputs_before = <<>>
    /\ runs = 0

-----------------------------------------------------------------------------
(* SpecPiece: _is_start_piece_sp applied to one piece.                     *)

InitPiece ==
    /\ pc = "piece_call"
    /\ piece \in Pieces
    /\ piece_result = None
    /\ tokenizer_ok = TRUE
    /\ mlm_probability = [num |-> 3, den |-> 20]
    /\ warnings = 0
    /\ outcome = "none"
    /\ WwmIdle /\ CallIdle /\ TensorIdle

IsStartPieceCall ==
    /\ pc = "piece_call"
    /\ piece_result' = Some(_is_start_piece_sp(piece))
    /\ pc' = "piece_done"
    /\ UNCHANGED <<tokenizer_ok, mlm_probability, warnings, piece, wwmVars,
                   callVars, tensorVars, outcome>>

NextPiece == IsStartPieceCall

SpecPiece == InitPiece /\ [][NextPiece]_vars

-----------------------------------------------------------------------------
(* SpecWwm: one direct call of _whole_word_mask.                           *)

\* the token strings of the lists given to _whole_word_mask
WwmTokens == {cls_token, sep_token, TheTok, QuickTok, FoxTok}

\* values of max_predictions: a cap that binds and the default
MaxPredictionsChoices == {2, DefaultMaxPredictions}

InitWwm ==
    /\ pc = "wwm_call"
    /\ tokenizer_ok = TRUE
    /\ mlm_probability \in MlmProbabilities
    /\ warnings = 0
    /\ input_tokens \in SeqsOf(WwmTokens, 0, MaxTokens)
    /\ max_predictions \in MaxPredictionsChoices
    /\ cand_indexes = <<>>
    /\ num_to_predict = 0
    /\ wwm_out = None
    /\ outcome = "none"
    /\ PieceIdle /\ CallIdle /\ TensorIdle

NextWwm == WwmGroup \/ WwmShuffle \/ WwmSelect

SpecWwm == InitWwm /\ [][NextWwm]_vars

-----------------------------------------------------------------------------
(* Properties of _whole_word_mask (SpecWwm).                               *)

\* positions of a token list that hold neither cls_token nor sep_token
NonSpecialPositions(tokens) ==
    {p \in 0..(Len(tokens) - 1) : tokens[p + 1] \notin {cls_token, sep_token}}

\* the groups of a list of groups, one after the other
RECURSIVE Flatten(_)
Flatten(groups) ==
    IF groups = <<>> THEN <<>> ELSE Head(groups) \o Flatten(Tail(groups))

StrictlyIncreasing(s) == \A i, j \in DOMAIN s : i < j => s[i] < s[j]

Ones(v) == Cardinality({p \in DOMAIN v : v[p] = 1})

GroupMasked(v, g) == \A j \in DOMAIN g : v[g[j] + 1] = 1
GroupUnmasked(v, g) == \A j \in DOMAIN g : v[g[j] + 1] = 0

\* C1: the groups built before the shuffle hold exactly the positions whose
\* token is neither the classifier nor the separator token, each once, in
\* increasing order inside each group and across the groups.
C1_GroupsPartition ==
    pc = "wwm_grouped" =>
        /\ \A g \in DOMAIN cand_indexes : Len(cand_indexes[g]) >= 1
        /\ Range(Flatten(cand_indexes)) = NonSpecialPositions(input_tokens)
        /\ StrictlyIncreasing(Flatten(cand_indexes))

C1_Witness ==
    /\ pc = "wwm_grouped"
    /\ Len(cand_indexes) >= 2
    /\ \E g \in DOMAIN cand_indexes : Len(cand_indexes[g]) >= 2
    /\ \E i \in DOMAIN input_tokens : input_tokens[i] = cls_token
    /\ \E i \in DOMAIN input_tokens : input_tokens[i] = sep_token

\* C2: the returned vector has at most max_predictions ones, at most
\* num_to_predict = min(max_predictions, max(1, round(len * probability)))
\* ones, and at most as many ones as there are non-special positions.
C2_MaskCountBounded ==
    pc = "wwm_returned" =>
        /\ Ones(wwm_out[1]) <= max_predictions
        /\ num_to_predict =
              Min(max_predictions,
                  Max(1, PyRound(Len(input_tokens) * mlm_probability.num,
                                 mlm_probability.den)))
        /\ Ones(wwm_out[1]) <= num_to_predict
        /\ Ones(wwm_out[1]) <= Cardinality(NonSpecialPositions(input_tokens))

C2_Witness ==
    /\ pc = "wwm_returned"
    /\ max_predictions = 2
    /\ mlm_probability = [num |-> 1, den |-> 1]
    /\ Ones(wwm_out[1]) = 2
    /\ Cardinality(NonSpecialPositions(input_tokens)) > 2
    /\ \E g \in DOMAIN cand_indexes : Len(cand_indexes[g]) = 2

\* C9 as stated: every group starts with a word-start token, continues with
\* continuation tokens only, and no classifier/separator position lies
\* between two of its positions.
C9_GroupsAreWholeWords ==
    pc = "wwm_grouped" =>
        \A g \in DOMAIN cand_indexes :
            LET grp == cand_indexes[g] IN
            /\ _is_start_piece_sp(input_tokens[grp[1] + 1])
            /\ \A j \in 2..Len(grp) : ~_is_start_piece_sp(input_tokens[grp[j] + 1])
            /\ \A p \in grp[1]..grp[Len(grp)] :
                  input_tokens[p + 1] \notin {cls_token, sep_token}

\* C9 amended: every group but the first one built starts with a word-start
\* token, and every group continues with continuation tokens only; the
\* first group starts at the first non-special position whatever its token.
C9_GroupsStartAtWordStarts ==
    pc = "wwm_grouped" =>
        /\ \A g \in DOMAIN cand_indexes :
              \A j \in 2..Len(cand_indexes[g]) :
                  ~_is_start_piece_sp(input_tokens[cand_indexes[g][j] + 1])
        /\ \A g \in 2..Len(cand_indexes) :
              _is_start_piece_sp(input_tokens[cand_indexes[g][1] + 1])
        /\ cand_indexes # <<>> =>
              cand_indexes[1][1] =
                  CHOOSE p \in NonSpecialPositions(input_tokens) :
                      \A q \in NonSpecialPositions(input_tokens) : p <= q

\* a first group that starts with a continuation token and spans a separator
C9_Witness ==
    /\ pc = "wwm_grouped"
    /\ Len(cand_indexes) >= 2
    /\ ~_is_start_piece_sp(input_tokens[cand_indexes[1][1] + 1])
    /\ \E p \in cand_indexes[1][1]..cand_indexes[1][Len(cand_indexes[1])] :
          input_tokens[p + 1] = sep_token
    /\ Len(cand_indexes[2]) >= 2

\* C10: the walk skips a group that does not fit and goes on, so the result
\* is maximal: the ones number num_to_predict, or every group left unmasked
\* is longer than the room left; with room for all positions every group is
\* masked, as in the example of the specification.
C10_SelectionMaximal ==
    pc = "wwm_returned" =>
        LET v == wwm_out[1]
            room == num_to_predict - Ones(v)
        IN  /\ \/ Ones(v) = num_to_predict
               \/ \A g \in DOMAIN cand_indexes :
                     ~GroupMasked(v, cand_indexes[g]) => Len(cand_indexes[g]) > room
            /\ num_to_predict >= Cardinality(NonSpecialPositions(input_tokens)) =>
                  \A g \in DOMAIN cand_indexes : GroupMasked(v, cand_indexes[g])
            /\ ( /\ input_tokens = <<cls_token, TheTok, QuickTok, FoxTok, sep_token>>
                 /\ mlm_probability = [num |-> 1, den |-> 1]
                 /\ max_predictions = DefaultMaxPredictions )
                  => v = <<0, 1, 1, 1, 0>>

\* a group that did not fit was passed over and a later, shorter one was taken
C10_Witness ==
    /\ pc = "wwm_returned"
    /\ \E g, h \in DOMAIN cand_indexes :
          /\ g < h
          /\ GroupUnmasked(wwm_out[1], cand_indexes[g])
          /\ GroupMasked(wwm_out[1], cand_indexes[h])
          /\ Len(cand_indexes[g]) > Len(cand_indexes[h])
    /\ Ones(wwm_out[1]) < num_to_predict

-----------------------------------------------------------------------------
(* SpecMask: mask_tokens called on a tensor of one row, then called again  *)
(* on its own results with the same special_tokens_mask argument.          *)

\* ids of the rows given to mask_tokens: a special one and an ordinary one
MaskInputIds == {token_id(cls_token), token_id(TheTok)}

InitMask ==
    /\ pc = "mask_call"
    /\ tokenizer_ok = TRUE
    /\ mlm_probability = [num |-> 3, den |-> 20]
    /\ warnings = 0
    /\ outcome = "none"
    /\ \E n \in 1..MaxMaskLen :
          /\ input_ids \in {<<row>> : row \in [1..n -> MaskInputIds]}
          /\ batch_mask \in {<<row>> : row \in [1..n -> {0, 1}]}
          /\ special_tokens_mask \in
                {None} \cup {Some(<<row>>) : row \in [1..n -> BOOLEAN]}
    /\ labels = <<>>
    /\ stm_used = <<>>
    /\ inputs_before = <<>>
    /\ runs = 0
    /\ PieceIdle /\ WwmIdle /\ CallIdle

NextMask == MaskTokens

SpecMask == InitMask /\ [][NextMask]_vars

Positions(t) == {<<r, p>> \in (DOMAIN t) \X (1..MaxMaskLen + MaxTokens) : p \in DOMAIN t[r]}

\* C4: after a run of mask_tokens the label of a position differs from -100
\* exactly when its mask label, after the zeroing at special positions, is
\* 1; the label is then the input id the position had before the run, and a
\* position with label -100 is not masked.
C4_LabelsMatchMask ==
    runs >= 1 =>
        \A rp \in Positions(labels) :
            LET r == rp[1]
                p == rp[2]
            IN  /\ (labels[r][p] # IgnoreIndex) <=> (batch_mask[r][p] = 1)
                /\ labels[r][p] # IgnoreIndex => labels[r][p] = inputs_before[r][p]
                /\ labels[r][p] = IgnoreIndex => batch_mask[r][p] = 0

\* a masked position whose input was replaced, next to an unmasked one
C4_Witness ==
    /\ runs >= 1
    /\ \E rp, rq \in Positions(labels) :
          /\ labels[rp[1]][rp[2]] # IgnoreIndex
          /\ input_ids[rp[1]][rp[2]] # labels[rp[1]][rp[2]]
          /\ labels[rq[1]][rq[2]] = IgnoreIndex

\* C5: at every position the special-token mask marks, after a run the mask
\* label is 0, the label is -100 and the input id is the one before the run;
\* the same holds after mask_tokens has run again on its own results.
C5_SpecialPositionsUntouched ==
    runs >= 1 =>
        \A rp \in Positions(labels) :
            LET r == rp[1]
                p == rp[2]
            IN  stm_used[r][p] =>
                    /\ batch_mask[r][p] = 0
                    /\ labels[r][p] = IgnoreIndex
                    /\ input_ids[r][p] = inputs_before[r][p]

\* the second run, with a given mask that marks one position and leaves
\* another one masked
C5_Witness ==
    /\ runs = 2
    /\ special_tokens_mask # None
    /\ \E rp, rq \in Positions(labels) :
          /\ stm_used[rp[1]][rp[2]]
          /\ ~stm_used[rq[1]][rq[2]]
          /\ labels[rq[1]][rq[2]] # IgnoreIndex

-----------------------------------------------------------------------------
(* Spec: one call of the collator, __call__(examples).                     *)

\* ids of the examples: <unk>, "▁the", "fox"
CallInputIds == {token_id(unk_token), token_id(TheTok), token_id(FoxTok)}

\* the shapes (rows, longest row) of the batches
CallShapes == {<<b, n>> \in (1..MaxCells) \X (1..MaxCells) : b * n <= MaxCells}

\* the batches of plain id lists
ListBatches ==
    UNION {{[r \in 1..sh[1] |-> [input_ids |-> rows[r], special_tokens_mask |-> None]] :
                rows \in [1..sh[1] -> SeqsOf(CallInputIds, 1, sh[2])]} :
           sh \in CallShapes}

\* the batches of dicts: the special_tokens_mask of every example marks no
\* position (what the tokenizer returns for ids without [CLS] and [SEP]) or
\* marks every position
DictBatches ==
    {[r \in DOMAIN b |->
        [input_ids |-> b[r].input_ids,
         special_tokens_mask |-> Some([p \in DOMAIN b[r].input_ids |-> v])]] :
     <<b, v>> \in ListBatches \X BOOLEAN}

Init ==
    /\ pc = "call"
    /\ tokenizer_ok \in BOOLEAN
    /\ mlm_probability = [num |-> 1, den |-> 2]
    /\ warnings = 0
    /\ outcome = "none"
    /\ examples \in {<<>>} \cup ListBatches \cup DictBatches
    /\ ex = 0
    /\ mask_labels = <<>>
    /\ word_groups = <<>>
    /\ PieceIdle /\ WwmIdle /\ TensorIdle

Next ==
    \/ CallCollate
    \/ CallLoopEnter
    \/ WwmGroup
    \/ WwmShuffle
    \/ WwmSelect
    \/ CallLoopAppend
    \/ CallMaskTokens

Spec == Init /\ [][Next]_vars

-----------------------------------------------------------------------------
(* Properties of __call__ (Spec).                                          *)

\* C3: in the returned batch every group built for a row is masked as a
\* whole: all of its positions carry a label other than -100, or all carry
\* -100.
C3_WholeWordsOnly ==
    pc = "done" =>
        \A r \in DOMAIN labels :
            \A g \in word_groups[r] :
                \/ \A j \in DOMAIN g : labels[r][g[j] + 1] # IgnoreIndex
                \/ \A j \in DOMAIN g : labels[r][g[j] + 1] = IgnoreIndex

\* C6 as stated: a call with no examples returns an empty batch
C6_EmptyBatchReturns ==
    (examples = <<>> /\ pc # "call") =>
        /\ outcome = "returned"
        /\ input_ids = <<>>
        /\ labels = <<>>

\* C6 amended: a call with no examples raises IndexError before any tensor
\* is built and returns nothing; a call with examples does not raise it.
C6_EmptyBatchRaises ==
    /\ (examples = <<>> /\ pc # "call") =>
          /\ pc = "raised"
          /\ outcome = "IndexError"
          /\ input_ids = <<>> /\ labels = <<>> /\ runs = 0
    /\ outcome = "IndexError" => examples = <<>>

C6_Witness == pc = "raised" /\ examples = <<>> /\ outcome = "IndexError"

-----------------------------------------------------------------------------
(* Properties of _is_start_piece_sp (SpecPiece).                           *)

\* the code points of the characters of the literal of line 16
LiteralSymbols == Range(PunctLiteral)

\* C8: _is_start_piece_sp is true exactly of the pieces that begin with "▁",
\* begin with "<", or are one symbol of the fixed set: a punctuation
\* character of the literal, "€" or "£".
C8_StartPieceIff ==
    pc = "piece_done" =>
        piece_result[1] =
            ( \/ (Len(piece.v) >= 1 /\ piece.v[1] = 9601)
              \/ (Len(piece.v) >= 1 /\ piece.v[1] = 60)
              \/ (Len(piece.v) = 1 /\ piece.v[1] \in LiteralSymbols \cup {8364, 163}) )

====
